---------------------------- MODULE Spec2Model ----------------------------
(***************************************************************************)
(* Model of the Google Keep -> Bear converter (src/keep-to-bear.js).      *)
(*                                                                         *)
(* The source file holds three revisions of the converter one after the   *)
(* other: a JavaScript one (lines 1-333), a TypeScript one with the       *)
(* Labels.txt hashtag escaper and inline hashtags (lines 334-703) and a   *)
(* TypeScript one with YAML front-matter tags (lines 705-1077).  The      *)
(* batch loop convert()/convertNote() is the same text in all three; the  *)
(* label mapping of generateMarkdown (YAML tags) and of generateHashtags  *)
(* and the escaper escapeInvalidHashtags are modelled from the revision   *)
(* that holds them.  A run of convert() is a run of one of the two        *)
(* TypeScript revisions (variable `revision`): they differ in the first   *)
(* statement of convert(), in htmlToMarkdown and in generateMarkdown.     *)
(*                                                                         *)
(* A JavaScript string is modelled as a sequence of one-character strings *)
(* so that the regular-expression replacements of the source can be       *)
(* computed character by character, exactly as the source computes them.  *)
(***************************************************************************)
EXTENDS Integers, Sequences, FiniteSets, TLC

(***************************************************************************)
(* Bounds of the model.                                                    *)
(***************************************************************************)
MaxNotes == 3
MaxLabelLen == 4
MaxPad == 1
MaxTextLen == 4

\* longest title drawn letter by letter
MaxTitleLen == 3

(***************************************************************************)
(* Characters and character classes of the JavaScript regular expressions *)
(***************************************************************************)
UpperCase == <<"A","B","C","D","E","F","G","H","I","J","K","L","M",
               "N","O","P","Q","R","S","T","U","V","W","X","Y","Z">>

LowerCase == <<"a","b","c","d","e","f","g","h","i","j","k","l","m",
               "n","o","p","q","r","s","t","u","v","w","x","y","z">>

Digits == {"0","1","2","3","4","5","6","7","8","9"}

Range(s) == {s[i] : i \in DOMAIN s}

IsUpper(c) == c \in Range(UpperCase)

IsLower(c) == c \in Range(LowerCase)

\* \s of a JavaScript regular expression (the members the model draws)
IsSpace(c) == c \in {" ", "\t", "\n"}

\* \w of a JavaScript regular expression: [A-Za-z0-9_]
IsWordChar(c) == IsUpper(c) \/ IsLower(c) \/ c \in Digits \/ c = "_"

\* [\w-] : the characters of a hashtag name
IsTagChar(c) == IsWordChar(c) \/ c = "-"

\* [a-zA-Z0-9\s-] : the characters labelAsHashtag keeps
IsLabelKeepChar(c) == IsUpper(c) \/ IsLower(c) \/ c \in Digits \/ IsSpace(c) \/ c = "-"

ToLowerChar(c) ==
    IF IsUpper(c) THEN LowerCase[CHOOSE i \in DOMAIN UpperCase : UpperCase[i] = c]
    ELSE c

ToUpperChar(c) ==
    IF IsLower(c) THEN UpperCase[CHOOSE i \in DOMAIN LowerCase : LowerCase[i] = c]
    ELSE c

\* String.prototype.toLowerCase
ToLowerCase(s) == [i \in DOMAIN s |-> ToLowerChar(s[i])]

\* the rest of s from position i on (s.slice(i - 1) in JavaScript)
Drop(s, i) == SubSeq(s, i, Len(s))

\* s.startsWith(p, i - 1)
StartsWithAt(s, p, i) ==
    /\ i + Len(p) - 1 <= Len(s)
    /\ \A k \in 1..Len(p) : s[i + k - 1] = p[k]

RECURSIVE ReplaceAll(_, _, _)
\* s.replace(/p/g, r) for a literal pattern p: leftmost matches, left to right,
\* scanning resumes after each replaced match
ReplaceAll(s, p, r) ==
    IF s = <<>> THEN <<>>
    ELSE IF StartsWithAt(s, p, 1) THEN r \o ReplaceAll(Drop(s, Len(p) + 1), p, r)
    ELSE <<Head(s)>> \o ReplaceAll(Tail(s), p, r)

RECURSIVE SkipWhile(_, _)
\* s without its longest prefix of characters of the class `cls`
SkipWhile(s, cls) ==
    IF s = <<>> THEN s
    ELSE IF cls = "space" /\ IsSpace(Head(s)) THEN SkipWhile(Tail(s), cls)
    ELSE IF cls = "hyphen" /\ Head(s) = "-" THEN SkipWhile(Tail(s), cls)
    ELSE IF cls = "digit" /\ Head(s) \in Digits THEN SkipWhile(Tail(s), cls)
    ELSE IF cls = "tag" /\ IsTagChar(Head(s)) THEN SkipWhile(Tail(s), cls)
    ELSE IF cls = "newline" /\ Head(s) = "\n" THEN SkipWhile(Tail(s), cls)
    ELSE s

RECURSIVE CollapseSpaces(_)
\* s.replace(/\s+/g, "-")
CollapseSpaces(s) ==
    IF s = <<>> THEN <<>>
    ELSE IF IsSpace(Head(s)) THEN <<"-">> \o CollapseSpaces(SkipWhile(s, "space"))
    ELSE <<Head(s)>> \o CollapseSpaces(Tail(s))

RECURSIVE CollapseHyphens(_)
\* s.replace(/-+/g, "-")
CollapseHyphens(s) ==
    IF s = <<>> THEN <<>>
    ELSE IF Head(s) = "-" THEN <<"-">> \o CollapseHyphens(SkipWhile(s, "hyphen"))
    ELSE <<Head(s)>> \o CollapseHyphens(Tail(s))

RECURSIVE TrimEnd(_)
TrimEnd(s) ==
    IF s # <<>> /\ IsSpace(s[Len(s)]) THEN TrimEnd(SubSeq(s, 1, Len(s) - 1)) ELSE s

\* String.prototype.trim
Trim(s) == TrimEnd(SkipWhile(s, "space"))

RECURSIVE Flatten(_)
\* the concatenation of a sequence of strings
Flatten(ss) == IF ss = <<>> THEN <<>> ELSE Head(ss) \o Flatten(Tail(ss))

\* the strings over `alphabet` of length 0..n
Strings(alphabet, n) == UNION {[1..k -> alphabet] : k \in 0..n}

(***************************************************************************)
(* Label -> tag mapping.                                                    *)
(***************************************************************************)
\* "/" , " - " and the tokens the two revisions substitute
Slash == <<"/">>

HierSep == <<" ", "-", " ">>

Ampersand == <<" ", "&", " ">>

AndWord == <<" ", "a", "n", "d", " ">>

\* const tagPrefix = "06-google-keep/"
TagPrefix == <<"0","6","-","g","o","o","g","l","e","-","k","e","e","p","/">>

\* let yamlTags = ["06-google-keep"]
RootTag == <<"0","6","-","g","o","o","g","l","e","-","k","e","e","p">>

\* .filter((name) => Boolean(name && name.trim()))
IsKeptName(name) == name # <<>> /\ Trim(name) # <<>>

\* the .map callback of generateMarkdown: "/" -> " & ", then " - " -> "/",
\* then whitespace runs -> "-", lowercase, behind the tag prefix
LabelTag(name) ==
    LET processedName == ReplaceAll(ReplaceAll(name, Slash, Ampersand), HierSep, Slash)
    IN  TagPrefix \o ToLowerCase(CollapseSpaces(processedName))

\* the tags of the YAML front matter, in order: the root tag, then one tag per
\* label that passes the filter
\* the tags built without the filter on blank label names
YamlTagsUnfiltered(names) ==
    <<RootTag>> \o [k \in DOMAIN names |-> LabelTag(names[k])]

YamlTags(names) ==
    LET kept == SelectSeq(names, IsKeptName)
    IN  <<RootTag>> \o [k \in DOMAIN kept |-> LabelTag(kept[k])]

\* the .map callback of generateHashtags: "/" -> " and ", then " - " -> "-",
\* then whitespace runs -> "-", lowercase, behind "#"
LabelHashtag(name) ==
    LET processedName == ReplaceAll(ReplaceAll(name, Slash, AndWord), HierSep, <<"-">>)
    IN  <<"#">> \o ToLowerCase(CollapseSpaces(processedName))

\* generateHashtags
Hashtags(names) ==
    LET kept == SelectSeq(names, IsKeptName)
    IN  <<(<<"#">> \o RootTag)>> \o [k \in DOMAIN kept |-> LabelHashtag(kept[k])]

(***************************************************************************)
(* Labels.txt and the hashtag escaper.                                      *)
(***************************************************************************)
\* fs.pathExists(labelsFilePath) is false
NoFile == "absent"

\* stands for the arrow U+2192 of the line pattern /^\s*\d+(arrow)(.+)$/
Arrow == ">"

\* line.match(...): the set holding match[1], or {} when the line does not match
LineMatch(line) ==
    LET afterSpace == SkipWhile(line, "space")
        afterDigits == SkipWhile(afterSpace, "digit")
    IN  IF /\ Len(afterDigits) < Len(afterSpace)
           /\ Len(afterDigits) >= 2
           /\ Head(afterDigits) = Arrow
        THEN {Tail(afterDigits)}
        ELSE {}

\* the labels loadValidLabels adds for a Labels.txt of these lines
LoadedLabels(lines) ==
    {Trim(m) : m \in {x \in UNION {LineMatch(lines[k]) : k \in DOMAIN lines} :
                        Trim(x) # <<>>}}

\* labelAsHashtag of escapeInvalidHashtags
LabelAsHashtag(label) ==
    ToLowerCase(CollapseHyphens(CollapseSpaces(SelectSeq(label, IsLabelKeepChar))))

\* isValidLabel that trusts every hashtag when no label is loaded
IsValidLabelFailOpen(hashtag, labels) ==
    labels = {} \/ \E label \in labels : LabelAsHashtag(label) = ToLowerCase(hashtag)

\* isValidLabel that compares the hashtag without lowercasing it
IsValidLabelCaseSensitive(hashtag, labels) ==
    \E label \in labels : LabelAsHashtag(label) = hashtag

\* isValidLabel: Array.from(this.validLabels).some(...)
IsValidLabel(hashtag, labels) ==
    \E label \in labels : LabelAsHashtag(label) = ToLowerCase(hashtag)

\* the replacement callback with the backslash doubled
ReplacementDoubled(match, labels) ==
    IF IsValidLabel(Tail(match), labels) THEN match ELSE <<"\\", "\\">> \o match

\* the replacement callback: valid matches stay, the others get one backslash
Replacement(match, labels) ==
    IF IsValidLabel(Tail(match), labels) THEN match ELSE <<"\\">> \o match

RECURSIVE EscapeInvalidHashtags(_, _)
\* content.replace(/#[\w-]+/g, callback)
EscapeInvalidHashtags(content, labels) ==
    IF content = <<>> THEN <<>>
    ELSE IF Head(content) = "#" /\ Len(content) >= 2 /\ IsTagChar(content[2])
    THEN LET rest == SkipWhile(Tail(content), "tag")
             match == SubSeq(content, 1, Len(content) - Len(rest))
         IN  Replacement(match, labels) \o EscapeInvalidHashtags(rest, labels)
    ELSE <<Head(content)>> \o EscapeInvalidHashtags(Tail(content), labels)

(***************************************************************************)
(* Dates.  createdTimestampUsec is modelled in whole minutes since the     *)
(* epoch (the value of parseInt(createdTimestampUsec) / 1000 / 60000):     *)
(* the titles and file names depend on the minute only, and the model's    *)
(* integers hold a minute count where they cannot hold microseconds.       *)
(***************************************************************************)
DigitChars == <<"0","1","2","3","4","5","6","7","8","9">>

RECURSIVE PadNumber(_, _)
\* n.toString().padStart(width, "0") for n >= 0
PadNumber(n, width) ==
    IF width <= 1 /\ n < 10 THEN <<DigitChars[n + 1]>>
    ELSE PadNumber(n \div 10, width - 1) \o <<DigitChars[(n % 10) + 1]>>

\* the proleptic Gregorian date [y, m, d] of a day count since 1970-01-01
CivilFromDays(days) ==
    LET z == days + 719468
        era == z \div 146097
        doe == z - era * 146097
        yoe == (doe - doe \div 1460 + doe \div 36524 - doe \div 146096) \div 365
        doy == doe - (365 * yoe + yoe \div 4 - yoe \div 100)
        mp == (5 * doy + 2) \div 153
        d == doy - (153 * mp + 2) \div 5 + 1
        m == IF mp < 10 THEN mp + 3 ELSE mp - 9
        y == yoe + era * 400 + (IF m <= 2 THEN 1 ELSE 0)
    IN  [y |-> y, m |-> m, d |-> d]

\* createdDate.toISOString().split("T")[0]: the calendar date in UTC
IsoDate(min) ==
    LET c == CivilFromDays(min \div 1440)
    IN  PadNumber(c.y, 4) \o <<"-">> \o PadNumber(c.m, 2) \o <<"-">> \o PadNumber(c.d, 2)

\* createdDate.toISOString() of a whole-minute instant
IsoString(min) ==
    IsoDate(min) \o <<"T">> \o PadNumber((min % 1440) \div 60, 2) \o <<":">>
       \o PadNumber(min % 60, 2) \o <<":","0","0",".","0","0","0","Z">>

\* createdDate.getHours(): the hour in the time zone of the process, which is
\* `tzOffset` minutes east of UTC
GetHours(min, tzOffset) == ((min + tzOffset) % 1440) \div 60

\* createdDate.getMinutes()
GetMinutes(min, tzOffset) == (min + tzOffset) % 60

(***************************************************************************)
(* A note record (KeepNote): title, ts (createdTimestampUsec), labels (the *)
(* label names) and attachments (the filePath of each; <<>> for none).     *)
(* A missing or empty title is <<>>; ts is [kind |-> "none"] when missing  *)
(* or empty, [kind |-> "bad"] when it does not parse to a date, and        *)
(* [kind |-> "ok", min |-> m] otherwise.                                   *)
(***************************************************************************)
NoTimestamp == [kind |-> "none"]

BadTimestamp == [kind |-> "bad"]

At(m) == [kind |-> "ok", min |-> m]

\* jsonData.title && jsonData.title.trim()
HasTitle(note) == note.title # <<>> /\ Trim(note.title) # <<>>

\* new Date(NaN).toISOString() throws a RangeError
Throws(note) == note.ts.kind = "bad"

\* "Unknown Date"
UnknownDate == <<"U","n","k","n","o","w","n"," ","D","a","t","e">>

\* generateDisplayTitle
GenerateDisplayTitle(note, tzOffset) ==
    LET datePrefix == IF note.ts.kind = "ok" THEN IsoDate(note.ts.min) ELSE UnknownDate
    IN  IF HasTitle(note) THEN datePrefix \o <<" ","-"," ">> \o Trim(note.title)
        ELSE IF note.ts.kind = "ok"
        THEN datePrefix \o <<".">> \o PadNumber(GetHours(note.ts.min, tzOffset), 2)
                \o <<".">> \o PadNumber(GetMinutes(note.ts.min, tzOffset), 2)
        ELSE datePrefix

\* fileName.substring(0, 50)
MaxFileNameLen == 50

\* substring(0, n) left out: the whole string
SubstringAll(s, n) == s

\* s.substring(0, n)
Substring0(s, n) == SubSeq(s, 1, IF Len(s) < n THEN Len(s) ELSE n)

\* [\w\s] : the class without the hyphen
IsFileNameCharNoHyphen(c) == IsWordChar(c) \/ IsSpace(c)

\* [\w\s-] : the characters generateFileName keeps
IsFileNameChar(c) == IsWordChar(c) \/ IsSpace(c) \/ c = "-"

\* ".md"
DotMd == <<".","m","d">>

\* generateFileName
GenerateFileName(note) ==
    LET fileName ==
           IF HasTitle(note)
           THEN ToLowerCase(CollapseSpaces(SelectSeq(Trim(note.title), IsFileNameChar)))
           ELSE IF note.ts.kind = "ok"
           THEN IsoDate(note.ts.min) \o <<"-","n","o","t","e">>
           ELSE <<"u","n","t","i","t","l","e","d","-","n","o","t","e">>
    IN  Substring0(fileName, MaxFileNameLen) \o DotMd

RECURSIVE TrimSlashes(_)
TrimSlashes(p) ==
    IF Len(p) > 1 /\ p[Len(p)] = "/" THEN TrimSlashes(SubSeq(p, 1, Len(p) - 1)) ELSE p

\* path.basename(p)
Basename(p) ==
    LET q == TrimSlashes(p)
        slashes == {k \in DOMAIN q : q[k] = "/"}
    IN  IF slashes = {} \/ q = <<"/">> THEN q
        ELSE Drop(q, (CHOOSE k \in slashes : \A j \in slashes : j <= k) + 1)

\* copyAttachments without the fs.pathExists test: every attachment with a
\* filePath counts as copied
CopyableUnchecked(note, files) ==
    SelectSeq(note.attachments, LAMBDA p : p # <<>>)

\* the attachments copyAttachments copies: those with a filePath whose source
\* file exists (`files`: the paths, relative to the note, that exist)
Copyable(note, files) ==
    SelectSeq(note.attachments, LAMBDA p : p # <<>> /\ p \in files)

\* the list copyAttachments returns
CopiedFiles(note, files) ==
    LET c == Copyable(note, files) IN [k \in DOMAIN c |-> Basename(c[k])]

\* s.endsWith(suffix)
EndsWith(s, suffix) ==
    Len(suffix) <= Len(s) /\ SubSeq(s, Len(s) - Len(suffix) + 1, Len(s)) = suffix

ImageExtensions ==
    { <<"j","p","g">>, <<"j","p","e","g">>, <<"p","n","g">>, <<"g","i","f">>,
      <<"b","m","p">>, <<"s","v","g">>, <<"w","e","b","p">> }

\* /\.(jpg|jpeg|png|gif|bmp|svg|webp)$/.test(fileName): the flag i left out
IsImageCaseSensitive(fileName) ==
    \E ext \in ImageExtensions : EndsWith(fileName, <<".">> \o ext)

\* /\.(jpg|jpeg|png|gif|bmp|svg|webp)$/i.test(fileName)
IsImage(fileName) ==
    \E ext \in ImageExtensions : EndsWith(ToLowerCase(fileName), <<".">> \o ext)

NL == <<"\n">>

\* "## Attachments\n\n"
AttachmentsHeader ==
    <<"#","#"," ","A","t","t","a","c","h","m","e","n","t","s">> \o NL \o NL

\* one entry of the attachments section
AttachmentEntry(fileName) ==
    IF IsImage(fileName)
    THEN <<"!","[","]","(">> \o fileName \o <<")">> \o NL \o NL
    ELSE <<"[">> \o fileName \o <<"]","(">> \o fileName \o <<")">> \o NL \o NL

\* the attachments section of generateMarkdown
AttachmentsSection(copied) ==
    IF Len(copied) > 0
    THEN AttachmentsHeader \o Flatten([k \in DOMAIN copied |-> AttachmentEntry(copied[k])])
    ELSE <<>>

\* the creation comment of generateMarkdown
CreatedMarker(note) ==
    IF note.ts.kind = "ok"
    THEN <<"<","!","-","-"," ","C","r","e","a","t","e","d",":"," ">>
            \o IsoString(note.ts.min) \o <<" ","-","-",">">> \o NL
    ELSE <<>>

\* the content part of generateMarkdown
ContentPart(content) ==
    IF content # <<>> /\ Trim(content) # <<>> THEN Trim(content) \o NL \o NL ELSE <<>>

\* the YAML front matter of generateMarkdown
FrontMatter(tags) ==
    <<"-","-","-">> \o NL \o <<"t","a","g","s",":">> \o NL
       \o Flatten([k \in DOMAIN tags |-> <<" "," ","-"," ">> \o tags[k] \o NL])
       \o <<"-","-","-">> \o NL \o NL

\* the title line
TitleLine(title) == <<"#"," ">> \o title \o NL \o NL

\* s.join(" ")
RECURSIVE JoinSpace(_)
JoinSpace(ss) ==
    IF ss = <<>> THEN <<>>
    ELSE IF Len(ss) = 1 THEN ss[1]
    ELSE ss[1] \o <<" ">> \o JoinSpace(Tail(ss))

\* generateMarkdown of the revision with the attachments put before the content
GenerateMarkdownAttachmentsFirst(note, content, copied, tzOffset) ==
    Trim(FrontMatter(YamlTags(note.labels))
           \o TitleLine(GenerateDisplayTitle(note, tzOffset))
           \o AttachmentsSection(copied)
           \o ContentPart(content)
           \o CreatedMarker(note))

\* generateMarkdown of the revision with YAML front matter (lines 920-988)
GenerateMarkdown(note, content, copied, tzOffset) ==
    Trim(FrontMatter(YamlTags(note.labels))
           \o TitleLine(GenerateDisplayTitle(note, tzOffset))
           \o ContentPart(content)
           \o AttachmentsSection(copied)
           \o CreatedMarker(note))

\* generateMarkdown of the revision with inline hashtags (lines 569-614)
GenerateMarkdownHashtags(note, content, copied, tzOffset, labels) ==
    Trim(TitleLine(EscapeInvalidHashtags(GenerateDisplayTitle(note, tzOffset), labels))
           \o JoinSpace(Hashtags(note.labels)) \o NL \o NL
           \o ContentPart(content)
           \o AttachmentsSection(copied)
           \o CreatedMarker(note))

RECURSIVE CollapseNewlines(_)
\* markdown.replace(/\n{3,}/g, "\n\n")
CollapseNewlines(s) ==
    IF s = <<>> THEN <<>>
    ELSE IF StartsWithAt(s, NL \o NL \o NL, 1)
    THEN NL \o NL \o CollapseNewlines(SkipWhile(s, "newline"))
    ELSE <<Head(s)>> \o CollapseNewlines(Tail(s))

(***************************************************************************)
(* State.                                                                  *)
(*   pc          position in convert() (or the phase of a function run)    *)
(*   labelsFile  Labels.txt in the working directory: NoFile or its lines  *)
(*   validLabels this.validLabels                                          *)
(*   nNotes      jsonFiles.length                                          *)
(*   idx         number of loop iterations of convert() begun             *)
(*   awaiting    convert() is suspended at `await this.convertNote(...)`   *)
(*   pos         per note: the step of convertNote in progress, or how it  *)
(*               settled                                                   *)
(*   converted   the counter `converted`                                   *)
(*   log         history: the steps that have ended, <<note, step, ok>>    *)
(*   labelNames  the label names of the note given to the label mapping    *)
(*   yamlTags    the yamlTags array generateMarkdown built                 *)
(*   hashtags    the array generateHashtags built                          *)
(*   content     the text given to escapeInvalidHashtags                   *)
(*   escaped     its result                                                *)
(*   reescaped   the result of escaping `escaped` once more                *)
(*   revision    which revision of the converter runs: "hashtag" (inline   *)
(*               hashtags, Labels.txt) or "yaml" (YAML front matter)       *)
(*   tzOffset    the time zone of the process, in minutes east of UTC      *)
(*   inDir       the input directory: per note its JSON record (json), the *)
(*               markdown its .html file converts to or NoFile (html), and *)
(*               the attachment paths that exist beside it (files)         *)
(*   locals      per note the locals of convertNote: content,              *)
(*               copiedAttachments (copied), markdown, outputFileName      *)
(*               (fileName)                                                *)
(*   outDir      the output directory: file name -> what the file holds    *)
(*   outDirAtCall  history: the output directory as it was when the        *)
(*               latest convertNote call began                             *)
(***************************************************************************)
VARIABLES pc, labelsFile, validLabels, nNotes, idx, awaiting, pos, converted,
          log, labelNames, yamlTags, hashtags, content, escaped, reescaped,
          revision, tzOffset, inDir, locals, outDir, outDirAtCall

vars == <<pc, labelsFile, validLabels, nNotes, idx, awaiting, pos, converted,
          log, labelNames, yamlTags, hashtags, content, escaped, reescaped,
          revision, tzOffset, inDir, locals, outDir, outDirAtCall>>

batchVars == <<nNotes, idx, awaiting, pos, converted, log>>

labelVars == <<labelNames, yamlTags, hashtags>>

textVars == <<content, escaped, reescaped>>

envVars == <<revision, tzOffset, inDir>>

fileVars == <<locals, outDir, outDirAtCall>>

\* a result that has not been computed yet
None == <<"none">>

(***************************************************************************)
(* convert() and convertNote(): the batch loop.                            *)
(***************************************************************************)
\* the steps of convertNote, in the order of its text
StepOrder == <<"parse", "render", "copy", "assemble", "write">>

Rank(step) == CHOOSE r \in DOMAIN StepOrder : StepOrder[r] = step

Settled == {"resolved", "rejected"}

\* convertNote called without `await`: the loop goes on at once
CallNotAwaited == TRUE

\* the promise of the convertNote call the loop awaits has settled
CallSettled == pos[idx] \in Settled

\* convertNote called outside try/catch: the rejection rejects convert()
AfterRejectionUncaught == "failed"

\* where convert() goes on after a rejected convertNote: the catch block logs
\* the error and the for loop continues
AfterRejection == "loop"

\* a missing .html file treated as an error: convertNote rejects
AfterMissingHtmlRejects == "rejected"

\* where convertNote goes on when the note has no .html file: content stays
\* "" and the attachments are copied
AfterMissingHtml == "copy"

\* the locals of a convertNote call that has not begun
NoLocals == [content |-> None, copied |-> None, markdown |-> None, fileName |-> None]

\* convert() that begins at fs.ensureDir and never loads Labels.txt
FirstStepSkipsLabels(rev) == "ensureDir"

\* the first statement of convert(): only the revision with inline hashtags
\* loads Labels.txt
FirstStep(rev) == IF rev = "hashtag" THEN "start" ELSE "ensureDir"

\* htmlToMarkdown applied to the markdown the HTML converts to: the revision
\* with inline hashtags trims and escapes it (lines 512-515), the one with YAML
\* front matter collapses runs of newlines and trims it (line 883)
HtmlToMarkdown(rendered, rev, labels) ==
    IF rev = "hashtag" THEN EscapeInvalidHashtags(Trim(rendered), labels)
    ELSE Trim(CollapseNewlines(rendered))

\* generateMarkdown of the running revision
AssembleMarkdown(note, body, copied, rev, tz, labels) ==
    IF rev = "hashtag" THEN GenerateMarkdownHashtags(note, body, copied, tz, labels)
    ELSE GenerateMarkdown(note, body, copied, tz)

\* what a copied attachment holds
CopyOf(path) == <<"copy of">> \o path

\* copies placed under the attachment's whole path instead of its base name
WithCopiesFullPath(dir, note, files, k) ==
    LET c == Copyable(note, files)
        names == {c[j] : j \in 1..k}
    IN  [n \in names \cup DOMAIN dir |-> IF n \in names THEN CopyOf(n) ELSE dir[n]]

\* the output directory after fs.copy of the first k copyable attachments
WithCopies(dir, note, files, k) ==
    LET c == Copyable(note, files)
        names == {Basename(c[j]) : j \in 1..k}
    IN  [n \in names \cup DOMAIN dir |->
           IF n \in names
           THEN CopyOf(c[CHOOSE j \in 1..k : Basename(c[j]) = n
                                  /\ \A h \in 1..k : Basename(c[h]) = n => h <= j])
           ELSE dir[n]]

\* a write that leaves an existing file of the name alone
WithFileKeepFirst(dir, name, text) ==
    [n \in {name} \cup DOMAIN dir |-> IF n \in DOMAIN dir THEN dir[n] ELSE text]

\* the output directory after fs.writeFile(outputPath, markdown)
WithFile(dir, name, text) ==
    [n \in {name} \cup DOMAIN dir |-> IF n = name THEN text ELSE dir[n]]

\* a step of note i ended: with ok it hands over to `next`, else convertNote rejects
EndStep(i, step, ok, next) ==
    /\ pos' = [pos EXCEPT ![i] = IF ok THEN next ELSE "rejected"]
    /\ log' = Append(log, <<i, step, ok>>)
    /\ UNCHANGED <<pc, labelsFile, validLabels, nNotes, idx, awaiting, converted>>
    /\ UNCHANGED <<labelVars, textVars, envVars, outDirAtCall>>

\* await this.loadValidLabels()
LoadValidLabels(from, to) ==
    /\ pc = from
    /\ pc' = to
    /\ validLabels' = IF labelsFile = NoFile THEN validLabels
                      ELSE validLabels \cup LoadedLabels(labelsFile)
    /\ UNCHANGED <<labelsFile, batchVars, labelVars, textVars, envVars, fileVars>>

\* await fs.ensureDir(this.outputDir): a failure rejects convert(), main() exits 1
EnsureOutputDir ==
    /\ pc = "ensureDir"
    /\ \E ok \in BOOLEAN : pc' = IF ok THEN "findFiles" ELSE "failed"
    /\ UNCHANGED <<labelsFile, validLabels, batchVars, labelVars, textVars>>
    /\ UNCHANGED <<envVars, fileVars>>

\* const jsonFiles = await this.findFiles(this.inputDir, ".json")
FindFiles ==
    /\ pc = "findFiles"
    /\ nNotes' = Len(inDir)
    /\ pos' = [i \in 1..Len(inDir) |-> "pending"]
    /\ locals' = [i \in 1..Len(inDir) |-> NoLocals]
    /\ pc' = "loop"
    /\ UNCHANGED <<labelsFile, validLabels, idx, awaiting, converted, log>>
    /\ UNCHANGED <<labelVars, textVars, envVars, outDir, outDirAtCall>>

\* the for loop takes the next jsonFile and calls convertNote, which runs up to
\* its first await (the read of the JSON file)
LoopNext ==
    /\ pc = "loop"
    /\ ~awaiting
    /\ idx < nNotes
    /\ idx' = idx + 1
    /\ awaiting' = TRUE
    /\ pos' = [pos EXCEPT ![idx + 1] = "parse"]
    /\ outDirAtCall' = outDir
    /\ UNCHANGED <<pc, labelsFile, validLabels, nNotes, converted, log>>
    /\ UNCHANGED <<labelVars, textVars, envVars, locals, outDir>>

\* parseJsonFile: fs.readFile and JSON.parse; then fs.pathExists(htmlFilePath)
ParseJson(i) ==
    /\ pos[i] = "parse"
    /\ \E ok \in BOOLEAN : EndStep(i, "parse", ok, "html")
    /\ UNCHANGED fileVars

\* let content = ""; if (htmlExists) content = await this.parseHtmlFile(htmlFilePath)
RenderContent(i) ==
    /\ pos[i] = "html"
    /\ IF inDir[i].html # NoFile
       THEN \E ok \in BOOLEAN :
               /\ EndStep(i, "render", ok, "copy")
               /\ locals' = IF ok
                            THEN [locals EXCEPT ![i].content =
                                    HtmlToMarkdown(inDir[i].html, revision, validLabels)]
                            ELSE locals
       ELSE /\ pos' = [pos EXCEPT ![i] = AfterMissingHtml]
            /\ locals' = [locals EXCEPT ![i].content = <<>>]
            /\ UNCHANGED <<pc, labelsFile, validLabels, nNotes, idx, awaiting,
                           converted, log, labelVars, textVars, envVars,
                           outDirAtCall>>
    /\ UNCHANGED outDir

\* await this.copyAttachments(jsonFilePath, jsonData): without attachments it
\* returns at once; else a failure of ensureDir, pathExists or copy rejects with
\* the attachments before it copied
CopyAttachments(i) ==
    LET note == inDir[i].json
        n == Len(Copyable(note, inDir[i].files))
    IN  /\ pos[i] = "copy"
        /\ \E ok \in (IF note.attachments = <<>> THEN {TRUE} ELSE BOOLEAN) :
              /\ EndStep(i, "copy", ok, "assemble")
              /\ IF ok
                 THEN /\ locals' = [locals EXCEPT ![i].copied =
                                       CopiedFiles(note, inDir[i].files)]
                      /\ outDir' = WithCopies(outDir, note, inDir[i].files, n)
                 ELSE /\ locals' = locals
                      /\ \E k \in 0..(IF n = 0 THEN 0 ELSE n - 1) :
                            outDir' = WithCopies(outDir, note, inDir[i].files, k)

\* generateMarkdown and generateFileName (toISOString throws on an invalid date)
Assemble(i) ==
    LET note == inDir[i].json
        ok == ~Throws(note)
    IN  /\ pos[i] = "assemble"
        /\ EndStep(i, "assemble", ok, "write")
        /\ locals' = IF ok
                     THEN [locals EXCEPT
                             ![i].markdown = AssembleMarkdown(note, locals[i].content,
                                                locals[i].copied, revision, tzOffset,
                                                validLabels),
                             ![i].fileName = GenerateFileName(note)]
                     ELSE locals
        /\ UNCHANGED outDir

\* await fs.writeFile(outputPath, markdown, "utf8")
WriteFile(i) ==
    /\ pos[i] = "write"
    /\ \E ok \in BOOLEAN :
          /\ EndStep(i, "write", ok, "resolved")
          /\ outDir' = IF ok THEN WithFile(outDir, locals[i].fileName, locals[i].markdown)
                       ELSE outDir
    /\ UNCHANGED locals

\* convert() resumes after the await: converted++ on success, the catch block
\* on rejection
LoopResume ==
    /\ pc = "loop"
    /\ awaiting
    /\ CallSettled
    /\ awaiting' = FALSE
    /\ converted' = IF pos[idx] = "resolved" THEN converted + 1 ELSE converted
    /\ pc' = IF pos[idx] = "rejected" THEN AfterRejection ELSE pc
    /\ UNCHANGED <<labelsFile, validLabels, nNotes, idx, pos, log>>
    /\ UNCHANGED <<labelVars, textVars, envVars, fileVars>>

\* the for loop is exhausted: the summary line is printed, convert() resolves
LoopExit ==
    /\ pc = "loop"
    /\ ~awaiting
    /\ idx = nNotes
    /\ pc' = "done"
    /\ UNCHANGED <<labelsFile, validLabels, batchVars, labelVars, textVars>>
    /\ UNCHANGED <<envVars, fileVars>>

\* Labels.txt files of a batch run
BatchLabelFiles == {NoFile, <<<<"1", Arrow, "a">>>>}

\* 2024-03-15T18:30:00.000Z in minutes since the epoch
MarchEvening == 28508790

\* the notes of a batch run: one with an .html file and an attachment that
\* exists, one with neither, one whose createdTimestampUsec is not a number
PlainNote ==
    [json |-> [title |-> <<"a">>, ts |-> At(MarchEvening), labels |-> <<>>,
               attachments |-> <<<<"p">>>>],
     html |-> <<"b">>, files |-> {<<"p">>}]

BareNote ==
    [json |-> [title |-> <<>>, ts |-> NoTimestamp, labels |-> <<>>,
               attachments |-> <<>>],
     html |-> NoFile, files |-> {}]

BrokenDateNote ==
    [json |-> [title |-> <<"c">>, ts |-> BadTimestamp, labels |-> <<>>,
               attachments |-> <<>>],
     html |-> NoFile, files |-> {}]

BatchNotes == {PlainNote, BareNote, BrokenDateNote}

\* the part of the initial state every specification shares
InitCommon ==
    /\ validLabels = {}
    /\ nNotes = 0
    /\ idx = 0
    /\ awaiting = FALSE
    /\ pos = <<>>
    /\ converted = 0
    /\ log = <<>>
    /\ locals = <<>>
    /\ outDir = <<>>
    /\ outDirAtCall = <<>>

Init ==
    /\ InitCommon
    /\ revision \in {"hashtag", "yaml"}
    /\ pc = FirstStep(revision)
    /\ labelsFile \in (IF revision = "hashtag" THEN BatchLabelFiles ELSE {NoFile})
    /\ tzOffset = 0
    /\ \E n \in 0..MaxNotes : inDir \in [1..n -> BatchNotes]
    /\ labelNames = <<>>
    /\ yamlTags = None
    /\ hashtags = None
    /\ content = <<>>
    /\ escaped = None
    /\ reescaped = None

Next ==
    \/ LoadValidLabels("start", "ensureDir")
    \/ EnsureOutputDir
    \/ FindFiles
    \/ LoopNext
    \/ \E i \in 1..nNotes : ParseJson(i)
    \/ \E i \in 1..nNotes : RenderContent(i)
    \/ \E i \in 1..nNotes : CopyAttachments(i)
    \/ \E i \in 1..nNotes : Assemble(i)
    \/ \E i \in 1..nNotes : WriteFile(i)
    \/ LoopResume
    \/ LoopExit

Spec == Init /\ [][Next]_vars

(***************************************************************************)
(* Claims about the batch loop (specification Spec).                       *)
(***************************************************************************)
\* how often convertNote began for note i (parse is the first step to end)
Attempts(i) == Cardinality({p \in DOMAIN log : log[p][1] = i /\ log[p][2] = "parse"})

\* C1: every note of the enumerated list is attempted exactly once, a failed
\* note never ends the batch or keeps a later note from being attempted, and
\* the final `converted` count is the number of notes whose convertNote
\* completed without error.
C1_BatchCountsSuccesses ==
    /\ pc = "failed" => idx = 0
    /\ pc = "loop" => (awaiting /\ ~CallSettled) \/ ENABLED Next
    /\ \A i \in 1..nNotes : Attempts(i) <= 1
    /\ pc = "done" =>
          /\ \A i \in 1..nNotes : Attempts(i) = 1 /\ pos[i] \in Settled
          /\ converted = Cardinality({i \in 1..nNotes : pos[i] = "resolved"})

\* a finished batch in which a note failed, a later note was converted and the
\* count is smaller than the list
C1_Witness ==
    /\ pc = "done"
    /\ converted < nNotes
    /\ \E i, j \in 1..nNotes : i < j /\ pos[i] = "rejected" /\ pos[j] = "resolved"

\* C2: notes are processed one at a time in enumeration order: once any step of
\* note j has begun, every earlier note has settled; the steps that ended are
\* ordered by note and, within a note, in the order parse, render, copy,
\* assemble, write, and nothing follows a failed step of a note.
C2_OneNoteAtATime ==
    /\ \A i, j \in 1..nNotes : i < j /\ pos[j] # "pending" => pos[i] \in Settled
    /\ \A p, q \in DOMAIN log :
          p < q => \/ log[p][1] < log[q][1]
                   \/ /\ log[p][1] = log[q][1]
                      /\ Rank(log[p][2]) < Rank(log[q][2])
                      /\ log[p][3]

\* note 1 ran through all five steps and a step of note 2 has ended after them
C2_Witness ==
    /\ Len(log) >= 6
    /\ \A r \in 1..5 : log[r] = <<1, StepOrder[r], TRUE>>
    /\ log[6][1] = 2

(***************************************************************************)
(* The label mapping run on the labels of one note (specification          *)
(* SpecLabel): the label names are drawn, then generateMarkdown builds      *)
(* yamlTags and generateHashtags builds hashtags from them.                *)
(***************************************************************************)
LabelAlphabet == {"a", "B", " ", "-", "/"}

ShortNames == Strings(LabelAlphabet, MaxLabelLen)

\* "Reference - Linux/Tech"
ReferenceLinuxTech ==
    <<"R","e","f","e","r","e","n","c","e"," ","-"," ","L","i","n","u","x","/","T","e","c","h">>

\* "Personal - Friends"
PersonalFriends ==
    <<"P","e","r","s","o","n","a","l"," ","-"," ","F","r","i","e","n","d","s">>

\* "Work/Life"
WorkSlashLife == <<"W","o","r","k","/","L","i","f","e">>

\* "Work - Life"
WorkSepLife == <<"W","o","r","k"," ","-"," ","L","i","f","e">>

\* "a -/- b"
ASlashHyphensB == <<"a"," ","-","/","-"," ","b">>

Words == {<<"a">>, <<"B">>, <<"a","B">>}

\* P + " - " + A + "/" + B
ParentChildSlash(P, A, B) == P \o HierSep \o A \o Slash \o B

\* "a -  - b": two hierarchy separators with nothing between them
ASepSepB == <<"a"," ","-"," "," ","-"," ","b">>

ExampleNames ==
    {ReferenceLinuxTech, PersonalFriends, WorkSlashLife, WorkSepLife, ASlashHyphensB,
     ASepSepB}
    \cup {ParentChildSlash(P, A, B) : P \in Words, A \in Words, B \in Words}

Spaces(n) == [k \in 1..n |-> " "]

\* name with the letters at the positions `flip` in the other case
FlipCase(name, flip) ==
    [k \in DOMAIN name |->
        IF k \in flip
        THEN (IF IsUpper(name[k]) THEN ToLowerChar(name[k]) ELSE ToUpperChar(name[k]))
        ELSE name[k]]

\* the names that are `name` except for letter case or leading/trailing whitespace
CaseSpaceVariants(name) ==
    {Spaces(l) \o FlipCase(name, flip) \o Spaces(r) :
        l \in 0..MaxPad, r \in 0..MaxPad,
        flip \in SUBSET {k \in DOMAIN name : IsUpper(name[k]) \/ IsLower(name[k])}}

\* the names that are `name` with one "/" replaced by " - "
SlashVariants(name) ==
    {SubSeq(name, 1, k - 1) \o HierSep \o Drop(name, k + 1) :
        k \in {k \in DOMAIN name : name[k] = "/"}}

\* the label lists drawn for a first name n: n alone, or n with a second name
\* that differs from it in case/outer whitespace or has " - " for one "/"
LabelListsOf(n) ==
    {<<n>>} \cup {<<n, v>> : v \in CaseSpaceVariants(n) \cup SlashVariants(n)}

InitLabel ==
    /\ pc = "labels"
    /\ \/ \E n \in ShortNames : labelNames \in LabelListsOf(n)
       \/ \E n \in ExampleNames :
             labelNames \in {<<n>>} \cup {<<n, v>> : v \in SlashVariants(n)}
    /\ yamlTags = None
    /\ hashtags = None
    /\ labelsFile = NoFile
    /\ InitCommon
    /\ revision = "yaml"
    /\ tzOffset = 0
    /\ inDir = <<>>
    /\ content = <<>>
    /\ escaped = None
    /\ reescaped = None

\* the YAML front-matter part of generateMarkdown
GenerateYamlTags ==
    /\ pc = "labels"
    /\ yamlTags = None
    /\ yamlTags' = YamlTags(labelNames)
    /\ UNCHANGED <<pc, labelsFile, validLabels, batchVars, labelNames, hashtags, textVars>>
    /\ UNCHANGED <<envVars, fileVars>>

\* generateHashtags
GenerateHashtags ==
    /\ pc = "labels"
    /\ hashtags = None
    /\ hashtags' = Hashtags(labelNames)
    /\ UNCHANGED <<pc, labelsFile, validLabels, batchVars, labelNames, yamlTags, textVars>>
    /\ UNCHANGED <<envVars, fileVars>>

NextLabel == GenerateYamlTags \/ GenerateHashtags

SpecLabel == InitLabel /\ [][NextLabel]_vars

(***************************************************************************)
(* Claims about the label mapping (specification SpecLabel).               *)
(***************************************************************************)
\* every name of the note passed the blank-name filter, so that yamlTags[k + 1]
\* and hashtags[k + 1] are the tags of labelNames[k]
AllKept == \A k \in DOMAIN labelNames : IsKeptName(labelNames[k])

\* the part of a YAML tag behind the tag prefix
LabelPart(tag) == Drop(tag, Len(TagPrefix) + 1)

\* the number of places of s where p occurs
Occurrences(s, p) == Cardinality({k \in DOMAIN s : StartsWithAt(s, p, k)})

\* v is n except for letter case or for leading/trailing whitespace
SameButCaseAndSpace(n, v) ==
    \E l \in 0..MaxPad, r \in 0..MaxPad :
       /\ Len(v) = l + Len(n) + r
       /\ \A k \in 1..l : IsSpace(v[k])
       /\ \A k \in 1..r : IsSpace(v[l + Len(n) + k])
       /\ ToLowerCase(SubSeq(v, l + 1, l + Len(n))) = ToLowerCase(n)

\* C3: two label names that are identical except for letter case or for
\* leading/trailing whitespace get the same tag path.
C3_CaseAndSpaceInsensitive ==
    (/\ Len(labelNames) = 2
     /\ AllKept
     /\ SameButCaseAndSpace(labelNames[1], labelNames[2]))
    => /\ yamlTags # None => yamlTags[2] = yamlTags[3]
       /\ hashtags # None => hashtags[2] = hashtags[3]

\* C4: "P - A/B" with single words P, A, B gets the tag
\* root + lower(P) + "/" + lower(A) + "-and-" + lower(B); "Reference - Linux/Tech"
\* gets root + "reference/linux-and-tech" and "Personal - Friends" gets
\* root + "personal/friends".
C4_ParentChildSlashTag ==
    (yamlTags # None /\ Len(labelNames) = 1) =>
       /\ \A P \in Words, A \in Words, B \in Words :
             labelNames[1] = ParentChildSlash(P, A, B) =>
                yamlTags[2] = TagPrefix \o ToLowerCase(P) \o <<"/">> \o ToLowerCase(A)
                                \o <<"-","a","n","d","-">> \o ToLowerCase(B)
       /\ labelNames[1] = ReferenceLinuxTech =>
             yamlTags[2] = TagPrefix \o <<"r","e","f","e","r","e","n","c","e","/",
                                          "l","i","n","u","x","-","a","n","d","-",
                                          "t","e","c","h">>
       /\ labelNames[1] = PersonalFriends =>
             yamlTags[2] = TagPrefix \o <<"p","e","r","s","o","n","a","l","/",
                                          "f","r","i","e","n","d","s">>

\* C5: a literal "/" of a label name never becomes a path separator: the tag of
\* a name has no more "/" than the name has " - ", and a name with a "/" and
\* the name with that "/" replaced by " - " get different tags.
C5_SlashNeverSeparator ==
    (yamlTags # None /\ AllKept) =>
       /\ \A k \in DOMAIN labelNames :
             Occurrences(LabelPart(yamlTags[k + 1]), Slash)
                <= Occurrences(labelNames[k], HierSep)
       /\ (Len(labelNames) = 2 /\ labelNames[2] \in SlashVariants(labelNames[1]))
             => yamlTags[2] # yamlTags[3]

(***************************************************************************)
(* The hashtag escaper run on one text (specification SpecEscape):         *)
(* Labels.txt and the text are drawn, loadValidLabels fills validLabels,   *)
(* escapeInvalidHashtags is applied to the text and then to its own output *)
(***************************************************************************)
TextAlphabet == {"#", "a", "B", "-", " ", "\\"}

ShortTexts == Strings(TextAlphabet, MaxTextLen)

\* "#personal-friends"
HashPersonalFriends ==
    <<"#","p","e","r","s","o","n","a","l","-","f","r","i","e","n","d","s">>

\* "#reference-linux-tech"
HashReferenceLinuxTech ==
    <<"#","r","e","f","e","r","e","n","c","e","-","l","i","n","u","x","-","t","e","c","h">>

\* "Check #anything here"
CheckAnythingHere ==
    <<"C","h","e","c","k"," ","#","a","n","y","t","h","i","n","g"," ","h","e","r","e">>

ExampleTexts == {HashPersonalFriends, HashReferenceLinuxTech, CheckAnythingHere}

\* Labels.txt with the two labels of the README, in the numbered form the line
\* pattern of loadValidLabels accepts
ReadmeLabelsFile ==
    << <<"1", Arrow>> \o PersonalFriends, <<"2", Arrow>> \o ReferenceLinuxTech >>

LabelFiles ==
    { NoFile,
      << <<>> >>,
      << <<"a">> >>,
      << <<"1", Arrow, "a">> >>,
      << <<" ", "2", Arrow, "A", " ", "-", " ", "b">>, <<"3", Arrow, "B", " ">> >>,
      ReadmeLabelsFile }

InitEscape ==
    /\ pc = "text"
    /\ labelsFile \in LabelFiles
    /\ content \in ShortTexts \cup ExampleTexts
    /\ InitCommon
    /\ revision = "hashtag"
    /\ tzOffset = 0
    /\ inDir = <<>>
    /\ escaped = None
    /\ reescaped = None
    /\ labelNames = <<>>
    /\ yamlTags = None
    /\ hashtags = None

\* return this.escapeInvalidHashtags(markdown)
EscapeContent ==
    /\ pc = "loaded"
    /\ escaped' = EscapeInvalidHashtags(content, validLabels)
    /\ pc' = "escaped"
    /\ UNCHANGED <<labelsFile, validLabels, batchVars, labelVars, content, reescaped>>
    /\ UNCHANGED <<envVars, fileVars>>

\* escapeInvalidHashtags applied to text it has already escaped
EscapeAgain ==
    /\ pc = "escaped"
    /\ reescaped' = EscapeInvalidHashtags(escaped, validLabels)
    /\ pc' = "reescaped"
    /\ UNCHANGED <<labelsFile, validLabels, batchVars, labelVars, content, escaped>>
    /\ UNCHANGED <<envVars, fileVars>>

NextEscape ==
    \/ LoadValidLabels("text", "loaded")
    \/ EscapeContent
    \/ EscapeAgain

SpecEscape == InitEscape /\ [][NextEscape]_vars

(***************************************************************************)
(* Claims about the hashtag escaper (specification SpecEscape).            *)
(***************************************************************************)
\* the places of t where a hashtag token begins: "#" followed by a word or
\* hyphen character
TokenStarts(t) == {i \in DOMAIN t : t[i] = "#" /\ i < Len(t) /\ IsTagChar(t[i + 1])}

\* the last place of the token that begins at i
TokenEnd(t, i) ==
    CHOOSE e \in (i + 1)..Len(t) :
       /\ \A k \in (i + 1)..e : IsTagChar(t[k])
       /\ e = Len(t) \/ ~IsTagChar(t[e + 1])

\* the name of the token that begins at i: the token without its "#"
TokenName(t, i) == SubSeq(t, i + 1, TokenEnd(t, i))

\* the token starts of t whose name, lowercased, is the transformed form of no
\* label of `labels`
InvalidStarts(t, labels) ==
    {i \in TokenStarts(t) :
        \A label \in labels : LabelAsHashtag(label) # ToLowerCase(TokenName(t, i))}

\* where the character at place i of the text lies in the escaped text
OutPlace(t, labels, i) == i + Cardinality({j \in InvalidStarts(t, labels) : j <= i})

\* s without the characters at the places P
WithoutPlaces(s, P) ==
    LET kept == DOMAIN s \ P
    IN  [k \in 1..Cardinality(kept) |->
            s[CHOOSE p \in kept : Cardinality({x \in kept : x <= p}) = k]]

C7_EscapesExactlyInvalid ==
    escaped # None =>
       escaped = Flatten([i \in DOMAIN content |->
                            IF i \in InvalidStarts(content, validLabels)
                            THEN <<"\\", content[i]>>
                            ELSE <<content[i]>>])

\* an escaped text with a token that stayed (its name in other letter case than
\* the label) and a token that was escaped
C7_Witness ==
    /\ pc = "escaped"
    /\ \E i, j \in TokenStarts(content) :
          /\ i \notin InvalidStarts(content, validLabels)
          /\ TokenName(content, i) # ToLowerCase(TokenName(content, i))
          /\ j \in InvalidStarts(content, validLabels)

\* C8: the transformation of a valid label maps "Personal - Friends" to
\* "personal-friends" and "Reference - Linux/Tech" to "reference-linux-tech",
\* so that with both labels valid "#personal-friends" and
\* "#reference-linux-tech" stay unescaped.
C8_ReadmeLabelsStayUnescaped ==
    (escaped # None /\ {PersonalFriends, ReferenceLinuxTech} \subseteq validLabels) =>
       /\ content = HashPersonalFriends => escaped = content
       /\ content = HashReferenceLinuxTech => escaped = content

\* C9: escaping the escaper's own output changes nothing.
C9_EscapeIdempotent == reescaped # None => reescaped = escaped

\* C10: the escaper only inserts backslashes: the output is as long as the text
\* plus the number of invalid tokens, has a backslash right before the "#" of
\* each of them, and is the text again once these backslashes are deleted.
C10_OnlyBackslashesInserted ==
    escaped # None =>
       LET invalid == InvalidStarts(content, validLabels)
           inserted == {OutPlace(content, validLabels, i) - 1 : i \in invalid}
       IN  /\ Len(escaped) = Len(content) + Cardinality(invalid)
           /\ \A p \in inserted : escaped[p] = "\\" /\ escaped[p + 1] = "#"
           /\ WithoutPlaces(escaped, inserted) = content

\* a text that already holds a backslash and a blank, with a token that was
\* escaped
C10_Witness ==
    /\ pc = "escaped"
    /\ InvalidStarts(content, validLabels) # {}
    /\ \E k \in DOMAIN content : content[k] = "\\"
    /\ \E k \in DOMAIN content : content[k] = " "

(***************************************************************************)
(* One note converted by a run of convert() (specification SpecNote): the  *)
(* input directory holds a single note, drawn from the notes below.        *)
(***************************************************************************)
\* 2024-03-15T23:45Z and 2024-01-01T00:05Z
MarchNight == MarchEvening + 315

NewYearMorning == 19723 * 1440 + 5

Timestamps == {At(MarchEvening), At(MarchNight), At(NewYearMorning)}

\* time zones of the process: UTC, New York in March, India, Kiribati
TimeZones == {0, -240, 330, 840}

\* "Dinner Plans"
DinnerPlans == <<"D","i","n","n","e","r"," ","P","l","a","n","s">>

\* a note of the input directory
InputNote(title, ts, labels, attachments, html, files) ==
    [json |-> [title |-> title, ts |-> ts, labels |-> labels,
               attachments |-> attachments],
     html |-> html, files |-> files]

\* attachment paths: images in either letter case, other files, names that
\* only resemble an image extension, a path inside a directory
RestaurantPhoto == <<"r","e","s","t","a","u","r","a","n","t","-","p","h","o","t","o",".","j","p","g">>

PhotoUpper == <<"P","h","o","t","o",".","J","P","G">>

FilenamePdf == <<"f","i","l","e","n","a","m","e",".","p","d","f">>

InnerPng == <<"d","/","a",".","p","n","g">>

AttachmentPaths ==
    { RestaurantPhoto, PhotoUpper, FilenamePdf, InnerPng, <<"a",".","p","n","g">>, <<"a",".","j","p","e","g">>,
      <<"a",".","G","i","f">>, <<"a",".","b","m","p">>, <<"a",".","S","V","G">>, <<"a",".","w","e","b","p">>, <<"a",".","j","p","g",".","t","x","t">>, <<"a","j","p","g">>, <<"a",".","j","p">>,
      <<".","p","n","g">> }

\* the attachments of a note: none, one, or two of which one may lack its
\* filePath
AttachmentLists ==
    {<<>>} \cup {<<p>> : p \in AttachmentPaths \cup {<<>>}}
       \cup {<<p, q>> : p, q \in {PhotoUpper, FilenamePdf, InnerPng, <<"a",".","p","n","g">>, <<>>}}

\* the markdown an .html file converts to
BodyText == <<"L","e","t","'","s"," ","m","e","e","t","!">>

\* an .html file without text, one paragraph, two paragraphs set far apart
BodyTexts == {<<" ">>, BodyText, <<"a", "\n", "\n", "\n", "\n", "b", "\n">>}

\* the .html file beside a note: none, or one of the texts
HtmlFiles == {<<>>} \cup {<<b>> : b \in BodyTexts}

HtmlOf(h) == IF h = <<>> THEN NoFile ELSE h[1]

\* the labels of a note: none, the README's examples, blank and empty names
\* among others, the same name twice
NoteLabelLists ==
    { <<>>, <<PersonalFriends>>, <<PersonalFriends, ReferenceLinuxTech>>,
      <<<<" ">>>>, <<<<>>>>, <<<<"a">>, <<"a">>>>, <<<<"b">>, <<" ", " ">>, <<"a">>>>,
      <<<<>>, <<"b">>, <<"a">>, <<"b">>>>, <<<<"a">>, <<"\t">>, <<>>>> }

\* titles and bodies with literal hashtags: #a and #A are labels of the
\* Labels.txt of a batch run, #zz and #zz-1 are not, "C#" has no hashtag
HashTitles == {<<"#","a"," ","#","z","z">>, <<"C","#">>, <<"#","z","z">>}

HashBodies == {<<"#","a">>, <<"s","e","e"," ","#","z","z","-","1"," ","a","n","d"," ","#","A">>}

\* every title of up to MaxTitleLen characters of the alphabet
TitleAlphabet == {"a", "B", "_", " ", "-", "!"}

ShortTitles == Strings(TitleAlphabet, MaxTitleLen)

RECURSIVE Repeat(_, _)
Repeat(s, n) == IF n = 0 THEN <<>> ELSE s \o Repeat(s, n - 1)

\* titles around and beyond the length generateFileName cuts at
LongTitles ==
    { Repeat(<<"a">>, MaxFileNameLen - 1), Repeat(<<"a">>, MaxFileNameLen),
      Repeat(<<"a">>, MaxFileNameLen + 1), Repeat(<<"A","b"," ">>, 17) \o <<"c","!","d">>,
      Repeat(<<"x"," "," ">>, 17), <<" "," ">> \o Repeat(<<"Z">>, MaxFileNameLen) \o <<" ","!">> }

\* notes that differ in title and creation time
TimedNotes ==
    { InputNote(t, ts, <<>>, <<>>, NoFile, {}) :
         t \in {<<>>, <<" ">>, DinnerPlans},
         ts \in Timestamps \cup {NoTimestamp, BadTimestamp} }

InitNote ==
    /\ InitCommon
    /\ revision \in {"hashtag", "yaml"}
    /\ pc = FirstStep(revision)
    /\ \/ /\ tzOffset \in TimeZones
          /\ labelsFile = NoFile
          /\ \E n \in TimedNotes : inDir = <<n>>
       \/ /\ tzOffset = 0
          /\ labelsFile = NoFile
          /\ \E a \in AttachmentLists, h \in HtmlFiles,
                ts \in {NoTimestamp, At(MarchEvening)} :
                inDir \in {<<InputNote(DinnerPlans, ts, <<>>, a, HtmlOf(h), f)>> :
                             f \in SUBSET (Range(a) \ {<<>>})}
       \/ /\ tzOffset = 0
          /\ labelsFile = NoFile
          /\ \E l \in NoteLabelLists :
                inDir = <<InputNote(DinnerPlans, At(MarchEvening), l, <<>>, NoFile, {})>>
       \/ /\ tzOffset = 0
          /\ labelsFile \in BatchLabelFiles
          /\ \E t \in HashTitles, h \in {<<>>} \cup {<<b>> : b \in HashBodies} :
                inDir = <<InputNote(t, At(MarchEvening), <<>>, <<>>, HtmlOf(h), {})>>
       \/ /\ tzOffset = 0
          /\ labelsFile = NoFile
          /\ \E t \in ShortTitles \cup (IF revision = "yaml" THEN LongTitles ELSE {}),
                ts \in {NoTimestamp, At(MarchEvening)} :
                inDir = <<InputNote(t, ts, <<>>, <<>>, NoFile, {})>>
    /\ labelNames = <<>>
    /\ yamlTags = None
    /\ hashtags = None
    /\ content = <<>>
    /\ escaped = None
    /\ reescaped = None

SpecNote == InitNote /\ [][Next]_vars

(***************************************************************************)
(* Claims about the document of a note (specification SpecNote).           *)
(***************************************************************************)
RECURSIVE SplitLines(_)
\* the lines of a text
SplitLines(s) ==
    IF \A k \in DOMAIN s : s[k] # "\n" THEN <<s>>
    ELSE LET k == CHOOSE j \in DOMAIN s : s[j] = "\n" /\ \A h \in 1..(j - 1) : s[h] # "\n"
         IN  <<SubSeq(s, 1, k - 1)>> \o SplitLines(Drop(s, k + 1))

\* the heading of a document: its first line that begins with "# "
Heading(doc) ==
    LET ls == SplitLines(doc)
        hs == {k \in DOMAIN ls : StartsWithAt(ls[k], <<"#", " ">>, 1)}
    IN  IF hs = {} THEN None
        ELSE Drop(ls[CHOOSE k \in hs : \A j \in hs : k <= j], 3)

\* the notes whose document has been assembled
Assembled == {i \in 1..nNotes : locals[i].markdown # None}

\* YYYY-MM-DD.HH.MM of an instant, date and time both in UTC
UtcStamp(min) ==
    IsoDate(min) \o <<".">> \o PadNumber((min % 1440) \div 60, 2)
       \o <<".">> \o PadNumber(min % 60, 2)

\* C11: the display title of a note without a non-blank title and with a
\* creation timestamp is the date YYYY-MM-DD followed by .HH.MM of the same
\* instant, whatever the time zone of the process; 2024-03-15T18:30:00Z gives
\* 2024-03-15.18.30.
C11_UntitledTitleIsDateAndTime ==
    \A i \in Assembled :
       LET note == inDir[i].json
       IN  ~HasTitle(note) /\ note.ts.kind = "ok" =>
              /\ Heading(locals[i].markdown) = UtcStamp(note.ts.min)
              /\ note.ts.min = MarchEvening =>
                    Heading(locals[i].markdown) = <<"2","0","2","4","-","0","3","-","1","5",".","1","8",".","3","0">>

\* the untitled note of 2024-03-15T18:30:00Z assembled in UTC
C11_UtcCase ==
    \E i \in Assembled :
       /\ ~HasTitle(inDir[i].json) /\ inDir[i].json.ts = At(MarchEvening)
       /\ tzOffset = 0
       /\ Heading(locals[i].markdown) = <<"2","0","2","4","-","0","3","-","1","5",".","1","8",".","3","0">>

\* the non-empty lines of a document from the line `first` on, up to the
\* creation comment
LinesAfter(doc, first) ==
    LET ls == SplitLines(doc)
        at == {k \in DOMAIN ls : ls[k] = first}
    IN  IF at = {} THEN <<>>
        ELSE LET k0 == CHOOSE k \in at : \A j \in at : k <= j
             IN  SelectSeq(SubSeq(ls, k0 + 1, Len(ls)),
                           LAMBDA l : l # <<>> /\ ~StartsWithAt(l, <<"<","!","-","-">>, 1))

\* the entries of the attachments section of a document
AttachmentEntries(doc) == LinesAfter(doc, <<"#","#"," ","A","t","t","a","c","h","m","e","n","t","s">>)

\* the extension of a file name: what follows its last dot, in lower case
Extension(name) ==
    LET dots == {k \in DOMAIN name : name[k] = "."}
    IN  IF dots = {} THEN None
        ELSE ToLowerCase(Drop(name, (CHOOSE k \in dots : \A j \in dots : j <= k) + 1))

\* C12: in the attachments section a file name whose extension is jpg, jpeg,
\* png, gif, bmp, svg or webp in any letter case is an image embed ![](name),
\* any other name is a link [name](name); there is one entry per copied
\* attachment, in the order of the copied list.
C12_ImagesEmbeddedOthersLinked ==
    \A i \in Assembled :
       LET entries == AttachmentEntries(locals[i].markdown)
           copied == locals[i].copied
       IN  /\ Len(entries) = Len(copied)
           /\ \A k \in DOMAIN copied :
                 entries[k] =
                    IF Extension(copied[k]) \in ImageExtensions
                    THEN <<"!","[","]","(">> \o copied[k] \o <<")">>
                    ELSE <<"[">> \o copied[k] \o <<"]","(">> \o copied[k] \o <<")">>

\* a document with a link followed by the embed of an image whose extension is
\* in upper case
C12_Witness ==
    \E i \in Assembled :
       /\ locals[i].copied = <<FilenamePdf, PhotoUpper>>
       /\ AttachmentEntries(locals[i].markdown)[2] = <<"!","[","]","(","P","h","o","t","o",".","J","P","G",")">>

\* the positions of the attachments that have a filePath whose source exists
Present(i) ==
    {k \in DOMAIN inDir[i].json.attachments :
        /\ inDir[i].json.attachments[k] # <<>>
        /\ inDir[i].json.attachments[k] \in inDir[i].files}

\* the position of the k-th present attachment
NthPresent(i, k) ==
    CHOOSE p \in Present(i) : Cardinality({q \in Present(i) : q <= p}) = k

\* C13: copyAttachments returns, in their order, the base names of exactly the
\* attachments that have a filePath whose source file exists; an attachment
\* whose source is missing is not copied and not listed, and the document has
\* its "## Attachments" section exactly when the returned list is not empty.
C13_CopiedAreThePresentAttachments ==
    \A i \in 1..nNotes :
       locals[i].copied # None =>
          /\ Len(locals[i].copied) = Cardinality(Present(i))
          /\ \A k \in DOMAIN locals[i].copied :
                locals[i].copied[k] = Basename(inDir[i].json.attachments[NthPresent(i, k)])
          /\ nNotes = 1 /\ pos[i] \in {"assemble", "write"} =>
                DOMAIN outDir = Range(locals[i].copied)
          /\ i \in Assembled =>
                ((\E p \in DOMAIN SplitLines(locals[i].markdown) :
                     SplitLines(locals[i].markdown)[p] = <<"#","#"," ","A","t","t","a","c","h","m","e","n","t","s">>)
                 <=> locals[i].copied # <<>>)

\* a note with a missing and a present attachment was assembled: only the
\* present one is listed
C13_Witness ==
    \E i \in Assembled :
       /\ Len(inDir[i].json.attachments) = 2
       /\ \A p \in Range(inDir[i].json.attachments) : p # <<>>
       /\ Cardinality(Present(i)) = 1
       /\ Len(locals[i].copied) = 1
       /\ Len(AttachmentEntries(locals[i].markdown)) = 1

\* a note whose only attachment is missing was assembled without the section
C13_MissingOnly ==
    \E i \in Assembled :
       /\ inDir[i].json.attachments = <<FilenamePdf>>
       /\ inDir[i].files = {}
       /\ locals[i].copied = <<>>

\* the non-empty lines of a document
TextLines(doc) == SelectSeq(SplitLines(doc), LAMBDA l : l # <<>>)

\* the part of the document a line belongs to, told by its form
Kind(l) ==
    IF l \in {<<"-","-","-">>, <<"t","a","g","s",":">>} \/ StartsWithAt(l, <<" "," ","-"," ">>, 1) THEN "meta"
    ELSE IF StartsWithAt(l, <<"#"," ">>, 1) THEN "title"
    ELSE IF StartsWithAt(l, <<"#","0","6","-","g","o","o","g","l","e","-","k","e","e","p">>, 1) THEN "hashtags"
    ELSE IF l = <<"#","#"," ","A","t","t","a","c","h","m","e","n","t","s">> \/ StartsWithAt(l, <<"!","[","]","(">>, 1)
            \/ StartsWithAt(l, <<"[">>, 1) THEN "attach"
    ELSE IF StartsWithAt(l, <<"<","!","-","-"," ","C","r","e","a","t","e","d",":"," ">>, 1) THEN "marker"
    ELSE "body"

\* the parts in the order of the document
PartOrder(rev) ==
    IF rev = "yaml" THEN <<"meta", "title", "body", "attach", "marker">>
    ELSE <<"title", "hashtags", "body", "attach", "marker">>

PartRank(rev, kind) == CHOOSE r \in DOMAIN PartOrder(rev) : PartOrder(rev)[r] = kind

\* how many lines of a document are of a kind
CountKind(doc, kind) ==
    Cardinality({k \in DOMAIN TextLines(doc) : Kind(TextLines(doc)[k]) = kind})

C14_BareDocument ==
    \E i \in Assembled :
       /\ revision = "yaml"
       /\ CountKind(locals[i].markdown, "meta") + 1 = Len(TextLines(locals[i].markdown))

\* the tags the metadata block of a document lists: its "  - " lines without
\* the dash
ListedTags(doc) ==
    LET ls == SelectSeq(TextLines(doc), LAMBDA l : StartsWithAt(l, <<" "," ","-"," ">>, 1))
    IN  [k \in DOMAIN ls |-> Drop(ls[k], 5)]

\* the positions of the labels whose name is not empty after trimming
NonBlank(i) ==
    {k \in DOMAIN inDir[i].json.labels : Trim(inDir[i].json.labels[k]) # <<>>}

\* the position of the k-th non-blank label
NthNonBlank(i, k) ==
    CHOOSE p \in NonBlank(i) : Cardinality({q \in NonBlank(i) : q <= p}) = k

\* C15: the metadata block lists the root tag first and then exactly one tag
\* per label whose name is not empty after trimming, in the order of the labels
\* and with duplicates kept: it has 1 + (number of non-blank labels) tag lines.
C15_OneTagPerNonBlankLabel ==
    \A i \in Assembled :
       revision = "yaml" =>
          LET tags == ListedTags(locals[i].markdown)
          IN  /\ Len(tags) = 1 + Cardinality(NonBlank(i))
              /\ tags[1] = RootTag
              /\ \A k \in 1..Cardinality(NonBlank(i)) :
                    tags[k + 1] = LabelTag(inDir[i].json.labels[NthNonBlank(i, k)])

\* a document whose note has blank labels and one label twice: the tag is
\* listed twice, the blank labels are not listed
C15_Witness ==
    \E i \in Assembled :
       /\ revision = "yaml"
       /\ Len(inDir[i].json.labels) = 4
       /\ Len(ListedTags(locals[i].markdown)) = 4
       /\ ListedTags(locals[i].markdown)[2] = ListedTags(locals[i].markdown)[4]

\* the labels Labels.txt lists
ListedLabels == IF labelsFile = NoFile THEN {} ELSE LoadedLabels(labelsFile)

\* the literal hashtags of a line that are not valid tags and have no backslash
\* before them
Unescaped(l) ==
    {p \in InvalidStarts(l, ListedLabels) : p = 1 \/ l[p - 1] # "\\"}

\* C16: in the document of a note every literal hashtag that comes from the
\* title or from the rendered body and is not a valid tag is escaped with a
\* backslash: title and body both go through the hashtag escaper before they
\* are placed in the document.
C16_TitleAndBodyEscaped ==
    \A i \in Assembled :
       \A k \in DOMAIN TextLines(locals[i].markdown) :
          LET l == TextLines(locals[i].markdown)[k]
          IN  Kind(l) \in {"title", "body"} => Unescaped(l) = {}

\* the revision with inline hashtags assembled a document whose title and body
\* had invalid hashtags, and escaped them
C16_EscapedByHashtagRevision ==
    \E i \in Assembled :
       /\ revision = "hashtag"
       /\ InvalidStarts(inDir[i].json.title, ListedLabels) # {}
       /\ inDir[i].html # NoFile
       /\ InvalidStarts(inDir[i].html, ListedLabels) # {}
       /\ \A k \in DOMAIN TextLines(locals[i].markdown) :
             Kind(TextLines(locals[i].markdown)[k]) \in {"title", "body"} =>
                Unescaped(TextLines(locals[i].markdown)[k]) = {}

\* the file-name stem the claim derives from a title: the trimmed title
\* without the characters that are neither word characters, whitespace nor
\* hyphens, each run of whitespace turned into one hyphen, in lower case
TitleStem(title) ==
    LET kept == SelectSeq(Trim(title),
                          LAMBDA c : IsWordChar(c) \/ IsSpace(c) \/ c = "-")
    IN  Flatten([k \in DOMAIN kept |->
                   IF IsSpace(kept[k])
                   THEN IF k > 1 /\ IsSpace(kept[k - 1]) THEN <<>> ELSE <<"-">>
                   ELSE <<ToLowerChar(kept[k])>>])

\* the notes whose file name has been derived
Named == {i \in 1..nNotes : locals[i].fileName # None}

\* the part of a file name before ".md"
Stem(fileName) == SubSeq(fileName, 1, Len(fileName) - 3)

\* C17: generateFileName returns, for a note with a non-blank title, the
\* trimmed title without the characters other than word characters, whitespace
\* and hyphens, with each run of whitespace replaced by one hyphen, in lower
\* case, cut to 50 characters, plus ".md"; without title but with a timestamp
\* YYYY-MM-DD-note.md; with neither untitled-note.md.  The part before ".md"
\* never has more than 50 characters.
C17_FileNameDerivation ==
    \A i \in Named :
       LET note == inDir[i].json
           name == locals[i].fileName
       IN  /\ EndsWith(name, <<".","m","d">>)
           /\ Len(Stem(name)) <= 50
           /\ Stem(name) =
                 IF note.title # <<>> /\ Trim(note.title) # <<>>
                 THEN SubSeq(TitleStem(note.title), 1,
                             IF Len(TitleStem(note.title)) > 50 THEN 50
                             ELSE Len(TitleStem(note.title)))
                 ELSE IF note.ts.kind = "ok" THEN IsoDate(note.ts.min) \o <<"-","n","o","t","e">>
                 ELSE <<"u","n","t","i","t","l","e","d","-","n","o","t","e">>

\* a title of more than 50 characters with capitals, blanks and other
\* characters was cut to a stem of 50
C17_Witness ==
    \E i \in Named :
       /\ Len(TitleStem(inDir[i].json.title)) > 50
       /\ Len(Stem(locals[i].fileName)) = 50
       /\ \E c \in Range(inDir[i].json.title) : IsUpper(c)
       /\ "!" \in Range(inDir[i].json.title)
       /\ "-" \in Range(Stem(locals[i].fileName))

\* an untitled note with a timestamp got its date as file name
C17_Untitled ==
    \E i \in Named : locals[i].fileName = <<"2","0","2","4","-","0","3","-","1","5","-","n","o","t","e",".","m","d">>

\* a step of note i has failed
HasFailedStep(i) == \E p \in DOMAIN log : log[p][1] = i /\ ~log[p][3]

\* C18: a note that has no .html file is converted without error, with an
\* empty body: its document has the metadata block, the title line and, when
\* they are present, the attachments section and the creation marker, but no
\* body, and the note counts as converted.
C18_NoHtmlIsNoError ==
    \A i \in 1..nNotes :
       inDir[i].html = NoFile =>
          /\ \A p \in DOMAIN log : log[p][1] = i => log[p][2] # "render"
          /\ pos[i] = "rejected" => HasFailedStep(i)
          /\ locals[i].content \in {None, <<>>}
          /\ i \in Assembled =>
                LET doc == locals[i].markdown
                IN  /\ CountKind(doc, "body") = 0
                    /\ CountKind(doc, "title") = 1
                    /\ revision = "yaml" =>
                          CountKind(doc, "meta") >= 4 /\ Kind(TextLines(doc)[1]) = "meta"
                    /\ CountKind(doc, "attach") > 0 <=> locals[i].copied # <<>>
                    /\ CountKind(doc, "marker") > 0 <=> inDir[i].json.ts.kind = "ok"
          /\ pc = "done" /\ ~HasFailedStep(i) =>
                /\ pos[i] = "resolved"
                /\ converted = Cardinality({j \in 1..nNotes : pos[j] = "resolved"})
                /\ locals[i].fileName \in DOMAIN outDir
                /\ outDir[locals[i].fileName] = locals[i].markdown

\* a batch is done whose note had no .html file but an attachment and a
\* timestamp: it was converted and its document has both parts and no body
C18_Witness ==
    /\ pc = "done"
    /\ converted = 1
    /\ \E i \in Assembled :
          /\ inDir[i].html = NoFile
          /\ pos[i] = "resolved"
          /\ CountKind(locals[i].markdown, "attach") = 2
          /\ CountKind(locals[i].markdown, "marker") = 1
          /\ CountKind(locals[i].markdown, "body") = 0

(***************************************************************************)
(* A further claim about the label mapping (specification SpecLabel).      *)
(***************************************************************************)
\* a tag path has an empty segment: two adjacent "/" or a "/" at its end
HasEmptySegment(tag) ==
    \/ tag # <<>> /\ tag[Len(tag)] = "/"
    \/ \E k \in 1..(Len(tag) - 1) : tag[k] = "/" /\ tag[k + 1] = "/"

\* C19: no tag written to the metadata block has an empty path segment: for
\* every label name that passes the blank-name filter, names made only of
\* separators such as "-", " - " or "a -  - b" included, the tag has no two
\* adjacent "/" and does not end with "/".
C19_NoEmptySegment ==
    yamlTags # None => \A k \in DOMAIN yamlTags : ~HasEmptySegment(yamlTags[k])

\* the tag of the label "-" has no empty segment
C19_HyphenOnly ==
    /\ labelNames = <<<<"-">>>>
    /\ yamlTags = <<RootTag, TagPrefix \o <<"-">>>>

(***************************************************************************)
(* A batch whose notes share an output file name (specification            *)
(* SpecFiles): the notes are PlainNote, titled "a", and a note titled "A"  *)
(* whose document differs and whose file name is a.md as well.             *)
(***************************************************************************)
CapitalNote ==
    [json |-> [title |-> <<"A">>, ts |-> NoTimestamp, labels |-> <<>>,
               attachments |-> <<>>],
     html |-> NoFile, files |-> {}]

InitFiles ==
    /\ InitCommon
    /\ revision \in {"hashtag", "yaml"}
    /\ pc = FirstStep(revision)
    /\ labelsFile = NoFile
    /\ tzOffset = 0
    /\ \E n \in 0..MaxNotes : inDir \in [1..n -> {PlainNote, CapitalNote}]
    /\ labelNames = <<>>
    /\ yamlTags = None
    /\ hashtags = None
    /\ content = <<>>
    /\ escaped = None
    /\ reescaped = None

SpecFiles == InitFiles /\ [][Next]_vars

\* the notes that were written under a file name
WritersOf(name) ==
    {i \in 1..nNotes : pos[i] = "resolved" /\ locals[i].fileName = name}

\* the last of them in processing order
LastWriter(name) == CHOOSE i \in WritersOf(name) : \A j \in WritersOf(name) : j <= i

\* the documents of the output directory
Documents == {n \in DOMAIN outDir : EndsWith(n, DotMd)}

SharedLabelFiles == {NoFile, <<<<"1",">","a">>>>, <<<<"1",">","a">>, <<" ","2",">","Z","z">>>>}

\* notes whose title and body hold the hashtags #a, #A, #zz and #q
TaggedNote ==
    [json |-> [title |-> <<"#","a"," ","#","z","z">>, ts |-> NoTimestamp, labels |-> <<>>,
               attachments |-> <<>>],
     html |-> <<"#","z","z"," ","#","A">>, files |-> {}]

OtherTaggedNote ==
    [json |-> [title |-> <<"#","q">>, ts |-> NoTimestamp, labels |-> <<>>,
               attachments |-> <<>>],
     html |-> <<" ","#","a","#","q"," ">>, files |-> {}]

InitShared ==
    /\ InitCommon
    /\ revision \in {"hashtag", "yaml"}
    /\ pc = FirstStep(revision)
    /\ labelsFile \in (IF revision = "hashtag" THEN SharedLabelFiles ELSE {NoFile})
    /\ tzOffset = 0
    /\ \E n \in 0..MaxNotes : inDir \in [1..n -> {TaggedNote, OtherTaggedNote}]
    /\ labelNames = <<>>
    /\ yamlTags = None
    /\ hashtags = None
    /\ content = <<>>
    /\ escaped = None
    /\ reescaped = None

SpecShared == InitShared /\ [][Next]_vars

\* the notes whose body has been rendered
Rendered == {i \in 1..nNotes : locals[i].content # None /\ inDir[i].html # NoFile}

\* C21: the valid-label set is written only by loadValidLabels, which runs once
\* as the first step of convert(), before any note is processed; from the first
\* convertNote call to the end of the batch the set does not change, and the
\* title and the body of every note of the batch are escaped against that one
\* set, the labels Labels.txt listed.
C21_LabelsLoadedOnceThenReadOnly ==
    /\ [][validLabels' # validLabels => pc = "start" /\ pc' # "start" /\ idx = 0]_vars
    /\ [][labelsFile' = labelsFile]_vars
    /\ [](revision = "hashtag" /\ pc # "start" => validLabels = ListedLabels)
    /\ [](pc = "start" => idx = 0 /\ nNotes = 0)
    /\ [](revision = "hashtag" =>
            /\ \A i \in Rendered :
                  locals[i].content =
                     EscapeInvalidHashtags(Trim(inDir[i].html), ListedLabels)
            /\ \A i \in Assembled :
                  Heading(locals[i].markdown) =
                     EscapeInvalidHashtags(GenerateDisplayTitle(inDir[i].json, tzOffset),
                                           ListedLabels))

\* a finished batch of the revision with Labels.txt in which two notes were
\* converted, the first with a hashtag that is a label and one that is not, the
\* second with the same two hashtags: both are treated alike
C21_Witness ==
    /\ pc = "done"
    /\ revision = "hashtag"
    /\ validLabels = {<<"a">>}
    /\ nNotes >= 2
    /\ pos[1] = "resolved" /\ pos[nNotes] = "resolved"
    /\ inDir[1] = TaggedNote /\ inDir[nNotes] = TaggedNote
    /\ locals[1].content = <<"\\","#","z","z"," ","#","A">>
    /\ locals[nNotes].content = <<"\\","#","z","z"," ","#","A">>
    /\ Heading(locals[1].markdown) = UnknownDate \o <<" ","-"," ","#","a"," ","\\","#","z","z">>
    /\ Heading(locals[nNotes].markdown) = UnknownDate \o <<" ","-"," ","#","a"," ","\\","#","z","z">>

(***************************************************************************)
(* A batch whose notes have attachments and can fail after copying them    *)
(* (specification SpecAttach): PlainNote, and a note whose timestamp is    *)
(* not a number, with a present attachment p, a present attachment d/a.md  *)
(* (the name of PlainNote's document) and a missing one.                   *)
(***************************************************************************)
BrokenDateWithFiles ==
    [json |-> [title |-> <<"c">>, ts |-> BadTimestamp, labels |-> <<>>,
               attachments |-> <<<<"p">>, <<"d","/","a",".","m","d">>, <<"m">>>>],
     html |-> NoFile, files |-> {<<"p">>, <<"d","/","a",".","m","d">>}]

InitAttach ==
    /\ InitCommon
    /\ revision \in {"hashtag", "yaml"}
    /\ pc = FirstStep(revision)
    /\ labelsFile = NoFile
    /\ tzOffset = 0
    /\ \E n \in 0..MaxNotes : inDir \in [1..n -> {PlainNote, BrokenDateWithFiles}]
    /\ labelNames = <<>>
    /\ yamlTags = None
    /\ hashtags = None
    /\ content = <<>>
    /\ escaped = None
    /\ reescaped = None

SpecAttach == InitAttach /\ [][Next]_vars

\* step `step` of note i failed
FailedAt(i, step) == \E p \in DOMAIN log : log[p] = <<i, step, FALSE>>

\* the files the latest convertNote call created or overwrote
Changed ==
    {n \in DOMAIN outDir : n \notin DOMAIN outDirAtCall \/ outDir[n] # outDirAtCall[n]}

\* the attachments of note i that exist beside it
PresentAttachments(i) ==
    {a \in Range(inDir[i].json.attachments) : a # <<>> /\ a \in inDir[i].files}

\* C22 as stated: a note whose conversion fails leaves the output directory
\* unchanged: when convertNote has raised an error, at whatever step, the output
\* directory is as it was when the call began.
C22_FailedNoteLeavesOutputUnchanged ==
    idx >= 1 /\ pos[idx] = "rejected" => outDir = outDirAtCall

\* C22, amended: a note whose conversion fails leaves nothing but copies of its
\* own attachments: after a failure at metadata parse or content parse the
\* output directory is unchanged; after a failure at a later step no file is
\* removed and every file created or overwritten is the copy, under its base
\* name, of an attachment of that note that exists (all of them when the
\* failure came after the copy step), so the note's document is not written.
C22_FailedNoteLeavesOnlyCopies ==
    idx >= 1 /\ pos[idx] = "rejected" =>
       /\ DOMAIN outDirAtCall \subseteq DOMAIN outDir
       /\ FailedAt(idx, "parse") \/ FailedAt(idx, "render") => outDir = outDirAtCall
       /\ \A n \in Changed :
             \E a \in PresentAttachments(idx) : Basename(a) = n /\ outDir[n] = CopyOf(a)
       /\ FailedAt(idx, "assemble") \/ FailedAt(idx, "write") =>
             \A a \in PresentAttachments(idx) : Basename(a) \in DOMAIN outDir

\* a note failed after its attachments were copied: one copy is a new file and
\* one replaced the document an earlier note had written
C22_Witness ==
    /\ idx >= 2
    /\ pos[idx] = "rejected"
    /\ FailedAt(idx, "assemble")
    /\ Changed = {<<"p">>, <<"a",".","m","d">>} \/ Changed = {<<"a",".","m","d">>}
    /\ <<"a",".","m","d">> \in DOMAIN outDirAtCall
    /\ outDirAtCall[<<"a",".","m","d">>] = locals[1].markdown
    /\ outDir[<<"a",".","m","d">>] = CopyOf(<<"d","/","a",".","m","d">>)

(***************************************************************************)
(* The stem of the file name (specification SpecNote).                     *)
(***************************************************************************)
\* the title is non-blank and none of its characters is a word character,
\* whitespace or a hyphen once it is trimmed
OnlyRemovedChars(title) ==
    /\ title # <<>>
    /\ Trim(title) # <<>>
    /\ \A k \in DOMAIN Trim(title) :
          LET c == Trim(title)[k]
          IN  ~(IsWordChar(c) \/ IsSpace(c) \/ c = "-")

\* C23 as stated: generateFileName never returns a name with an empty stem: for
\* every note, also one whose non-blank title has only characters the
\* sanitising step removes, the part of the name before ".md" has at least one
\* character.
C23_StemNeverEmpty ==
    \A i \in Named : Stem(locals[i].fileName) # <<>>

\* C23, amended: generateFileName returns a name with an empty stem, the name
\* ".md", exactly for a note whose non-blank title has only characters the
\* sanitising step removes; for every other note the part before ".md" has at
\* least one character.
C23_StemEmptyOnlyForRemovedTitle ==
    \A i \in Named :
       /\ Stem(locals[i].fileName) = <<>> <=> OnlyRemovedChars(inDir[i].json.title)
       /\ OnlyRemovedChars(inDir[i].json.title) => locals[i].fileName = <<".","m","d">>
       /\ Stem(locals[i].fileName) \o <<".","m","d">> = locals[i].fileName

\* the note titled "!!!" was named ".md" and written under that name
C23_Witness ==
    \E i \in Named :
       /\ inDir[i].json.title = <<"!","!","!">>
       /\ locals[i].fileName = <<".","m","d">>
       /\ pos[i] = "resolved"
       /\ <<".","m","d">> \in DOMAIN outDir

\* the title "! -" keeps a stem: the blank and the hyphen give "--"
C23_HyphenTitle ==
    \E i \in Named : inDir[i].json.title = <<"!"," ","-">> /\ locals[i].fileName = <<"-","-",".","m","d">>

=============================================================================
